---- MODULE Spec2Model ----
(***************************************************************************)
(* Model of the training-step coordinator NumpyTrainer of                  *)
(* src/yuxin_numpy/mnist-convnet.py (lines 131-185): the global step       *)
(* counter, the host snapshot var_values, the momentum accumulator         *)
(* acc_values, the per-replica variable stores all_vars and run_step.      *)
(*                                                                         *)
(* Numbers are decimal fixed point: an integer x stands for x / Scale.     *)
(* A tensor is the sequence of its elements; a parameter of shape "s" is a *)
(* rank-0 tensor (one element), a parameter of shape "v" a rank-1 tensor   *)
(* of VecLen elements.  A session fetch of a rank-0 tensor yields a numpy  *)
(* scalar, which is immutable; a fetch of a rank-1 tensor yields an        *)
(* ndarray, which `-=` updates in place.                                   *)
(***************************************************************************)
EXTENDS Integers, Sequences, FiniteSets, TLC

VARIABLES shapes, all_vars, step_count, var_values, acc_values, grad_values,
          pc, failure, engine_out, pre, put_calls, sink, written_at,
          last_event, hist

vars == <<shapes, all_vars, step_count, var_values, acc_values, grad_values,
          pc, failure, engine_out, pre, put_calls, sink, written_at,
          last_event, hist>>

(* ------------------------------ bounds -------------------------------- *)
MaxReplicas == 2
MaxParams == 2
MaxSteps == 21
FreeSteps == 2
VecLen == 2

(* ----------------------------- numbers -------------------------------- *)
Scale == 10 ^ 3
lr == Scale \div 100
momentum == (9 * Scale) \div 10
SamplePeriod == 10

Times(a, b) == (a * b) \div Scale

None == <<>>

Shapes == {"s", "v"}
Dim(shape) == IF shape = "s" THEN 1 ELSE VecLen

(* the registered parameter lists: 1..MaxParams parameters of either rank *)
Layouts == UNION {[1..p -> Shapes] : p \in 1..MaxParams}

InitVals == {0, Scale}
GradSeeds == {Scale, 2 * Scale}
DefaultSeed == Scale

Fill(shape, c) == [j \in 1..Dim(shape) |-> c]

(* ------------------------- numpy tensor ops --------------------------- *)
zeros_like(g) == [j \in 1..Len(g) |-> 0]
TMul(t, c) == [j \in 1..Len(t) |-> Times(t[j], c)]
TAdd(a, b) == [j \in 1..Len(a) |-> a[j] + b[j]]
TSub(a, b) == [j \in 1..Len(a) |-> a[j] - b[j]]

(* `v -= d` on var_values[i]: in place on an ndarray; on a numpy scalar it *)
(* rebinds the local name v and leaves var_values[i] as it was.            *)
InPlaceSub(shape, v, d) == IF shape = "s" THEN v ELSE TSub(v, d)

(* ------------------------- gradient engine ---------------------------- *)
GradTensor(shape, g) ==
    [j \in 1..Dim(shape) |-> IF j % 2 = 1 THEN g ELSE 0 - g]

(* a gradient set of n entries; an entry beyond the registered parameters *)
(* is a rank-1 tensor                                                     *)
GradSet(shp, n, g) ==
    [i \in 1..n |-> GradTensor(IF i <= Len(shp) THEN shp[i] ELSE "v", g)]

(* the seeds the engine draws from: any seed during the first FreeSteps    *)
(* steps, the default seed afterwards                                     *)
Seeds(step) == IF step <= FreeSteps THEN GradSeeds ELSE {DefaultSeed}

(* what one barrier returns: one gradient set per replica.  Replica 0's  *)
(* set (index 1 here) may disagree in length with the parameters; the     *)
(* other replicas, whose sets run_step never fetches, return sets of the  *)
(* registered length from a seed of their own.                            *)
EngineOutputs(shp, n, step) ==
    {[r \in 1..n |-> IF r = 1 THEN GradSet(shp, l, g)
                               ELSE GradSet(shp, Len(shp), h)] :
        g \in Seeds(step), h \in GradSeeds,
        l \in (Len(shp) - 1)..(Len(shp) + 1)}

(* variant: the gradients of the last replica are fetched                  *)
LastReplicaGrads(out) == out[Len(out)]

(* self.all_grads = [k[0] for k in self._builder.grads[0]]                *)
AuthoritativeGrads(out) == out[1]

(* ------------------------- momentum update ---------------------------- *)
(* variant: the accumulator is zeroed in every step                        *)
AlwaysInit(acc) == TRUE

(* `if not self.acc_values`: None and the empty list are both falsy       *)
NeedsInit(acc) == acc = None

InitAcc(acc, grads) ==
    IF NeedsInit(acc) THEN [i \in 1..Len(grads) |-> zeros_like(grads[i])]
    ELSE acc

(* the loop of lines 173-177, from index i on; err is the IndexError of   *)
(* grad_values[i] or acc_values[i]                                        *)
RECURSIVE UpdateLoop(_, _, _, _, _, _, _)
UpdateLoop(i, vals, accs, grads, shp, mom, rate) ==
    IF i > Len(vals) THEN [var |-> vals, acc |-> accs, err |-> FALSE]
    ELSE IF i > Len(grads) \/ i > Len(accs)
         THEN [var |-> vals, acc |-> accs, err |-> TRUE]
    ELSE LET a == TAdd(TMul(accs[i], mom), grads[i])
             v == InPlaceSub(shp[i], vals[i], TMul(a, rate))
         IN UpdateLoop(i + 1, [vals EXCEPT ![i] = v], [accs EXCEPT ![i] = a],
                       grads, shp, mom, rate)

(* ---------------------------- broadcast ------------------------------- *)
(* zip(self.var_values, all_vars): the pairs of one replica               *)
ZipLen(vals, store) == IF Len(vals) <= Len(store) THEN Len(vals) ELSE Len(store)

(* _set_values stopped after k var.load calls, replica by replica         *)
RECURSIVE SetValuesFrom(_, _, _, _)
SetValuesFrom(r, vals, stores, k) ==
    IF r > Len(stores) \/ k = 0 THEN stores
    ELSE LET z == ZipLen(vals, stores[r])
             w == IF k < z THEN k ELSE z
             st == [i \in 1..Len(stores[r]) |->
                       IF i <= w THEN vals[i] ELSE stores[r][i]]
         IN SetValuesFrom(r + 1, vals, [stores EXCEPT ![r] = st], k - w)

RECURSIVE LoadCount(_, _, _)
LoadCount(r, vals, stores) ==
    IF r > Len(stores) THEN 0
    ELSE ZipLen(vals, stores[r]) + LoadCount(r + 1, vals, stores)

(* variant: only all_vars[0] is loaded                                     *)
SetValuesFirstOnly(vals, stores) ==
    SetValuesFrom(1, vals, stores, ZipLen(vals, stores[1]))

(* variant: the loop stops before the last replica                         *)
SetValuesSkipLast(vals, stores) ==
    SetValuesFrom(1, vals, stores,
                  LoadCount(1, vals, stores)
                    - ZipLen(vals, stores[Len(stores)]))

(* variant: the loop stops after the first var.load                        *)
SetValuesOneLoad(vals, stores) == SetValuesFrom(1, vals, stores, 1)

(* variant: all_vars[0] is left out of the loop                            *)
SetValuesSkipFirst(vals, stores) ==
    [SetValuesFrom(1, vals, stores, LoadCount(1, vals, stores))
        EXCEPT ![1] = stores[1]]

SetValues(vals, stores) ==
    SetValuesFrom(1, vals, stores, LoadCount(1, vals, stores))

(* ------------------------------ state --------------------------------- *)
(* shapes, all_vars      the registered parameters and the replica stores  *)
(* step_count, var_values, acc_values, grad_values   the program's state   *)
(* pc, failure           position inside run_step and the raised error     *)
(* engine_out            the gradient sets of the step's barrier, one per  *)
(*                       replica, held until the step's broadcast          *)
(* pre                   snapshot, accumulator and stores at step start    *)
(* put_calls, sink       the put_scalar calls made / accepted, by step     *)
(* written_at            per replica, the last step whose payload it holds *)
(* last_event            the last of compute / accumulate / broadcast      *)
(* hist                  reads: the steps in which _get_values ran;        *)
(*                       computes, bcasts: the session runs of all_grads   *)
(*                       and the _set_values calls of the current step;    *)
(*                       before: the stores before the last _set_values;   *)
(*                       completed: the run_step calls that returned       *)
Init ==
    /\ shapes \in Layouts
    /\ \E n \in 1..MaxReplicas : \E c \in [1..n -> InitVals] :
          all_vars = [r \in 1..n |->
                        [i \in 1..Len(shapes) |-> Fill(shapes[i], c[r])]]
    /\ step_count = 0
    /\ var_values = None
    /\ acc_values = None
    /\ grad_values = <<>>
    /\ pc = "idle"
    /\ failure = "none"
    /\ engine_out = <<>>
    /\ pre = [var |-> None, acc |-> None, store |-> all_vars]
    /\ put_calls = <<>>
    /\ sink = <<>>
    /\ written_at = [r \in 1..Len(all_vars) |-> 0]
    /\ last_event = "none"
    /\ hist = [reads |-> <<>>, computes |-> 0, bcasts |-> 0,
               before |-> all_vars, completed |-> 0]

N == Len(all_vars)
P == Len(shapes)

(* variant: the snapshot is pulled in every step                           *)
AlwaysWarmUp(vals) == TRUE

(* line 158: `if self.var_values is None`                                  *)
NeedsWarmUp(vals) == vals = None

(* variant: the snapshot is pulled from the last replica                   *)
GetValuesLast(stores) == stores[Len(stores)]

(* lines 147-148: self.sess.run(self.all_vars[0])                          *)
GetValues(stores) == stores[1]

(* lines 156-159: count the step, pull the snapshot from replica 0 once   *)
BeginStep ==
    /\ pc = "idle"
    /\ step_count < MaxSteps
    /\ step_count' = step_count + 1
    /\ var_values' = IF NeedsWarmUp(var_values) THEN GetValues(all_vars)
                                                ELSE var_values
    /\ hist' = [hist EXCEPT
                  !.reads = IF NeedsWarmUp(var_values)
                            THEN Append(@, step_count') ELSE @,
                  !.computes = 0, !.bcasts = 0]
    /\ pre' = [var |-> var_values', acc |-> acc_values, store |-> all_vars]
    /\ pc' = "barrier"
    /\ UNCHANGED <<shapes, all_vars, acc_values, grad_values, failure,
                   engine_out, put_calls, sink, written_at, last_event>>

(* line 162: the barrier returns *)
ComputeGradients ==
    /\ pc = "barrier"
    /\ \E out \in EngineOutputs(shapes, N, step_count) :
          /\ engine_out' = out
          /\ grad_values' = AuthoritativeGrads(out)
    /\ pc' = "sample"
    /\ last_event' = "compute"
    /\ hist' = [hist EXCEPT !.computes = @ + 1]
    /\ UNCHANGED <<shapes, all_vars, step_count, var_values, acc_values,
                   failure, pre, put_calls, sink, written_at>>

(* variant: the failed session run is reported and the step goes on        *)
DeviceFailureRetried ==
    /\ pc = "barrier"
    /\ failure = "none"
    /\ failure' = "device"
    /\ UNCHANGED <<shapes, all_vars, step_count, var_values, acc_values,
                   grad_values, pc, engine_out, pre, put_calls, sink,
                   written_at, last_event, hist>>

(* line 162: the session run raises *)
DeviceFailure ==
    /\ pc = "barrier"
    /\ pc' = "failed"
    /\ failure' = "device"
    /\ UNCHANGED hist
    /\ UNCHANGED <<shapes, all_vars, step_count, var_values, acc_values,
                   grad_values, engine_out, pre, put_calls, sink, written_at,
                   last_event>>

(* variant: sampled every fifth step                                       *)
SamplingEveryFive(count) == count % 5 = 0

(* line 164 *)
Sampling(count) == count % SamplePeriod = 0

SkipTelemetry ==
    /\ pc = "sample"
    /\ ~Sampling(step_count)
    /\ pc' = "update"
    /\ UNCHANGED hist
    /\ UNCHANGED <<shapes, all_vars, step_count, var_values, acc_values,
                   grad_values, failure, engine_out, pre, put_calls, sink,
                   written_at, last_event>>

(* variant: the emission counts as a step of its own                       *)
PutScalarCountsStep ==
    /\ pc = "sample"
    /\ Sampling(step_count)
    /\ put_calls' = Append(put_calls, step_count)
    /\ sink' = Append(sink, step_count)
    /\ step_count' = step_count + 1
    /\ pc' = "update"
    /\ UNCHANGED hist
    /\ UNCHANGED <<shapes, all_vars, var_values, acc_values,
                   grad_values, failure, engine_out, pre, written_at,
                   last_event>>

(* line 165: put_scalar returns *)
PutScalar ==
    /\ pc = "sample"
    /\ Sampling(step_count)
    /\ put_calls' = Append(put_calls, step_count)
    /\ sink' = Append(sink, step_count)
    /\ pc' = "update"
    /\ UNCHANGED hist
    /\ UNCHANGED <<shapes, all_vars, step_count, var_values, acc_values,
                   grad_values, failure, engine_out, pre, written_at,
                   last_event>>

(* line 165: put_scalar raises; nothing in run_step catches it *)
PutScalarFails ==
    /\ pc = "sample"
    /\ Sampling(step_count)
    /\ put_calls' = Append(put_calls, step_count)
    /\ pc' = "failed"
    /\ failure' = "telemetry"
    /\ UNCHANGED hist
    /\ UNCHANGED <<shapes, all_vars, step_count, var_values, acc_values,
                   grad_values, engine_out, pre, sink, written_at, last_event>>

(* lines 166-177 *)
MomentumUpdate ==
    /\ pc = "update"
    /\ LET res == UpdateLoop(1, var_values, InitAcc(acc_values, grad_values),
                             grad_values, shapes, momentum, lr)
       IN /\ var_values' = res.var
          /\ acc_values' = res.acc
          /\ pc' = IF res.err THEN "failed" ELSE "broadcast"
          /\ failure' = IF res.err THEN "shape" ELSE failure
          /\ last_event' = IF res.err THEN last_event ELSE "accumulate"
    /\ UNCHANGED hist
    /\ UNCHANGED <<shapes, all_vars, step_count, grad_values, engine_out,
                   pre, put_calls, sink, written_at>>

(* the replicas whose store holds the broadcast payload of this step      *)
Reached(stores, vals, at, step) ==
    [r \in 1..Len(stores) |-> IF stores[r] = vals THEN step ELSE at[r]]

(* line 185: every var.load returns *)
Broadcast ==
    /\ pc = "broadcast"
    /\ all_vars' = SetValues(var_values, all_vars)
    /\ written_at' = Reached(all_vars', var_values, written_at, step_count)
    /\ pc' = "idle"
    /\ last_event' = "broadcast"
    /\ engine_out' = <<>>
    /\ hist' = [hist EXCEPT !.bcasts = @ + 1, !.before = all_vars,
                            !.completed = @ + 1]
    /\ UNCHANGED <<shapes, step_count, var_values, acc_values, grad_values,
                   failure, pre, put_calls, sink>>

(* line 185: the var.load after the first k raises *)
BroadcastFails ==
    /\ pc = "broadcast"
    /\ \E k \in 0..(LoadCount(1, var_values, all_vars) - 1) :
          all_vars' = SetValuesFrom(1, var_values, all_vars, k)
    /\ pc' = "failed"
    /\ failure' = "store"
    /\ engine_out' = <<>>
    /\ hist' = [hist EXCEPT !.bcasts = @ + 1, !.before = all_vars]
    /\ UNCHANGED <<shapes, step_count, var_values, acc_values, grad_values,
                   pre, put_calls, sink, written_at, last_event>>

Next ==
    \/ BeginStep
    \/ ComputeGradients
    \/ DeviceFailure
    \/ SkipTelemetry
    \/ PutScalar
    \/ PutScalarFails
    \/ MomentumUpdate
    \/ Broadcast
    \/ BroadcastFails

Spec == Init /\ [][Next]_vars

TypeOK ==
    /\ shapes \in Layouts
    /\ step_count \in 0..MaxSteps
    /\ pc \in {"idle", "barrier", "sample", "update", "broadcast", "failed"}
    /\ failure \in {"none", "device", "telemetry", "shape", "store"}
    /\ last_event \in {"none", "compute", "accumulate", "broadcast"}

(* a step has completed: run_step returned without raising *)
Completed == pc = "idle" /\ step_count >= 1

(* the accumulator the update of the current step started from *)
AccBefore(i, j) == IF pre.acc = None THEN 0 ELSE pre.acc[i][j]

(* ------------------------------ claims -------------------------------- *)

(* C1: after every run_step that returns without error, every replica's   *)
(* store holds the same value as every other replica's store, for every   *)
(* parameter, whatever the replicas held before.                          *)
C1_ReplicasAgree ==
    Completed =>
        \A r \in 1..N : \A s \in 1..N : \A i \in 1..P :
            all_vars[r][i] = all_vars[s][i]

(* a step has completed on two replicas that entered it with different    *)
(* contents                                                               *)
C1_Witness ==
    /\ Completed
    /\ N >= 2
    /\ pre.store[1] # pre.store[2]
    /\ all_vars[1] # pre.store[1]

(* C2 (as stated): in every step whose update has run, for every          *)
(* parameter i of any rank, acc_after[i] = acc_before[i] * momentum +     *)
(* gradient[i] and the snapshot value is param_before[i] - lr *            *)
(* acc_after[i].                                                          *)
C2_MomentumRule ==
    pc = "broadcast" =>
        \A i \in 1..P : \A j \in 1..Dim(shapes[i]) :
            /\ acc_values[i][j]
                 = Times(AccBefore(i, j), momentum) + grad_values[i][j]
            /\ var_values[i][j]
                 = pre.var[i][j] - Times(lr, acc_values[i][j])

(* C3: the gradient computation of step k+1 is issued only when the       *)
(* broadcast of step k has reached every replica, and the events of the   *)
(* run follow each other as compute, accumulate, broadcast, compute, ...  *)
C3_StepsDoNotOverlap ==
    /\ [](pc = "barrier" =>
            \A r \in 1..N : written_at[r] = step_count - 1)
    /\ [][last_event' # last_event =>
            <<last_event, last_event'>> \in
                {<<"none", "compute">>, <<"compute", "accumulate">>,
                 <<"accumulate", "broadcast">>, <<"broadcast", "compute">>}]_vars

(* the barrier of a second step is about to be issued after a broadcast   *)
(* that changed the stores                                                *)
C3_Witness ==
    /\ pc = "barrier"
    /\ step_count = 2
    /\ last_event = "broadcast"
    /\ all_vars[N] # [i \in 1..P |-> Fill(shapes[i], 0)]
    /\ all_vars[N] # [i \in 1..P |-> Fill(shapes[i], Scale)]

C6_OnlyReplicaZero ==
    (pc = "broadcast" \/ failure = "shape") =>
        LET g0 == engine_out[1]
            res == UpdateLoop(1, pre.var, InitAcc(pre.acc, g0), g0, shapes,
                              momentum, lr)
        IN var_values = res.var /\ acc_values = res.acc

(* an update has run while another replica returned other gradients       *)
C6_Witness ==
    /\ pc = "broadcast"
    /\ N >= 2
    /\ engine_out[2] # engine_out[1]
    /\ acc_values # pre.acc

(* C7: the update of the first step starts from an all-zero accumulator;  *)
(* no accumulator exists before it and one exists in every later step,    *)
(* whose update starts from the accumulator the previous step left.       *)
C7_AccumulatorInit ==
    /\ (step_count = 0 \/ (step_count = 1
                             /\ pc \in {"barrier", "sample", "update"}))
          => acc_values = None
    /\ step_count > 1 => pre.acc # None
    /\ pc = "broadcast" =>
          \A i \in 1..P : \A j \in 1..Dim(shapes[i]) :
              acc_values[i][j]
                = Times(IF step_count = 1 THEN 0 ELSE pre.acc[i][j], momentum)
                    + grad_values[i][j]

(* the update of a second step has run on a non-zero accumulator          *)
C7_Witness ==
    /\ pc = "broadcast"
    /\ step_count = 2
    /\ pre.acc # None
    /\ pre.acc[1][1] # 0

(* the steps so far whose sampling point (line 164) has been passed       *)
PastSampling ==
    IF pc \in {"barrier", "sample"} \/ failure = "device"
    THEN step_count - 1 ELSE step_count

(* C8: put_scalar('step_time') has been called once for each step count   *)
(* 10, 20, 30, ... whose gradient computation returned, in that order,    *)
(* and for no other step.                                                 *)
C8_TelemetryCadence ==
    /\ Len(put_calls) = PastSampling \div 10
    /\ \A k \in 1..Len(put_calls) : put_calls[k] = 10 * k

(* steps 10 and 20 have been sampled and step 21 has completed            *)
C8_Witness ==
    /\ Completed
    /\ step_count = 21
    /\ put_calls = <<10, 20>>

(* an emission was refused by the sink in the current step                *)
EmitFailed == Len(put_calls) > Len(sink)

(* C9 (as stated): a failed emission does not abort the step.             *)
C9_SinkFailureNotFatal ==
    EmitFailed => pc # "failed"

Mixed(r) ==
    \E i \in 1..P : \E j \in 1..P :
        /\ hist.before[r][i] # var_values[i]
        /\ all_vars[r][i] = var_values[i]
        /\ hist.before[r][j] # var_values[j]
        /\ all_vars[r][j] = hist.before[r][j]

(* C11: whenever a gradient computation is issued, no replica's store     *)
(* holds a mix of values from before and after a broadcast write; a       *)
(* broadcast that failed part-way is followed by no computation at all.   *)
C11_NoPartialRead ==
    /\ [][hist'.computes > hist.computes =>
            /\ pc = "barrier"
            /\ \A r \in 1..N : ~Mixed(r)]_vars
    /\ [][pc = "failed" => pc' = "failed"]_vars

(* a broadcast has failed part-way and left a replica with a mix          *)
C11_Witness ==
    /\ pc = "failed"
    /\ failure = "store"
    /\ \E r \in 1..N : Mixed(r)

(* C12: _get_values runs exactly once in a run, in the first run_step,    *)
(* and copies replica 0's store into the snapshot; afterwards the         *)
(* snapshot changes only in the momentum update.                          *)
C12_ReadOnce ==
    /\ [](hist.reads = IF step_count = 0 THEN <<>> ELSE <<1>>)
    /\ [][var_values' # var_values =>
            \/ /\ var_values = None
               /\ step_count = 0
               /\ var_values' = all_vars[1]
            \/ pc = "update"]_vars

(* a third step has completed on a snapshot the update has changed        *)
C12_Witness ==
    /\ Completed
    /\ step_count = 3
    /\ hist.reads = <<1>>
    /\ var_values # pre.var

(* C13 (as stated): between run_step calls, also after a call that        *)
(* raised, step_count equals the number of steps that completed.          *)
C13_CountsCompleted ==
    pc \in {"idle", "failed"} => step_count = hist.completed

(* C14: a run_step call ends either committed (one gradient computation,  *)
(* accumulator and snapshot updated, one _set_values that left every      *)
(* replica holding the snapshot) or with an error; a step issues at most  *)
(* one gradient computation and one _set_values, and after the first      *)
(* error nothing more is done.                                            *)
C14_CommitOrFail ==
    /\ [](hist.computes <= 1 /\ hist.bcasts <= 1)
    /\ [](pc = "failed" <=> failure # "none")
    /\ [](Completed =>
            /\ hist.computes = 1
            /\ hist.bcasts = 1
            /\ last_event = "broadcast"
            /\ acc_values # None
            /\ \A r \in 1..N : all_vars[r] = var_values)
    /\ [][pc = "failed" => vars' = vars]_vars

(* a second step ended with an error in its broadcast                     *)
C14_Witness ==
    /\ pc = "failed"
    /\ failure = "store"
    /\ step_count = 2
    /\ hist.computes = 1
    /\ hist.bcasts = 1

(* C15: the state at every step boundary is a function of the initial     *)
(* replica-0 snapshot and the gradient sets consumed so far: the first    *)
(* step starts from replica 0's initial store and no accumulator, every   *)
(* later step from the boundary state its predecessor left, and the       *)
(* snapshot, the accumulator and every replica's store at the end of a    *)
(* step are what the update rule yields from that start and the step's    *)
(* gradient set, whatever the replica count, the other replicas' contents *)
(* and gradients and the telemetry calls were.                            *)
C15_Deterministic ==
    /\ [](step_count = 1 => pre.var = pre.store[1] /\ pre.acc = None)
    /\ [][(pc = "idle" /\ pc' = "barrier" /\ step_count >= 1) =>
            pre'.var = var_values /\ pre'.acc = acc_values]_vars
    /\ [](Completed =>
            LET res == UpdateLoop(1, pre.var, InitAcc(pre.acc, grad_values),
                                  grad_values, shapes, momentum, lr)
            IN /\ var_values = res.var
               /\ acc_values = res.acc
               /\ \A r \in 1..N : all_vars[r] = res.var)

(* a step has completed on two replicas that started with different       *)
(* contents, and has changed the snapshot                                 *)
C15_Witness ==
    /\ Completed
    /\ step_count = 1
    /\ N >= 2
    /\ pre.store[2] # pre.store[1]
    /\ var_values # pre.var
    /\ all_vars[2] = var_values

(* C16 (as stated): with momentum 0 the update of the step yields, for    *)
(* every parameter, param_before - lr * gradient, whatever the            *)
(* accumulator held.                                                      *)
C16_PlainDescent ==
    pc = "broadcast" =>
        LET res == UpdateLoop(1, pre.var, InitAcc(pre.acc, grad_values),
                              grad_values, shapes, 0, lr)
        IN \A i \in 1..P : \A j \in 1..Dim(shapes[i]) :
              res.var[i][j] = pre.var[i][j] - Times(lr, grad_values[i][j])

(* C17: a put_scalar call that the sink accepts changes neither the       *)
(* snapshot, the accumulator, a replica store nor the step counter, and   *)
(* the step goes on to its update as a non-sampling step does.            *)
C17_TelemetryPure ==
    [][Len(sink') > Len(sink) =>
          /\ var_values' = var_values
          /\ acc_values' = acc_values
          /\ all_vars' = all_vars
          /\ step_count' = step_count
          /\ pc' = "update"]_vars

(* the tenth step has emitted and is about to update                      *)
C17_Witness ==
    /\ pc = "update"
    /\ step_count = 10
    /\ sink = <<10>>
    /\ acc_values # None

(* C18: when a step's gradient computation is issued, and until its       *)
(* update, replica 0's store equals the snapshot the step started from    *)
(* (the one the previous update produced); after a completed step every   *)
(* replica's store equals the snapshot.                                   *)
C18_StoreMatchesSnapshot ==
    /\ pc \in {"barrier", "sample", "update"} =>
          all_vars[1] = var_values /\ var_values = pre.var
    /\ Completed => \A r \in 1..N : all_vars[r] = var_values

(* the barrier of a second step is about to be issued on a store that     *)
(* the first step's broadcast changed                                     *)
C18_Witness ==
    /\ pc = "barrier"
    /\ step_count = 2
    /\ all_vars[1] # hist.before[1]
    /\ all_vars[1] = var_values
====
